---- MODULE Spec2Model ----
(***************************************************************************)
(* Model of the Binance DCA bot (src/src/bot.js): the startup loop runBot, *)
(* the order executor placeOrder, the weight calculator calculateWeight    *)
(* and the indicator adapter TAAPI.getSMA.                                 *)
(*                                                                         *)
(* An execution of placeOrder is a frame that is suspended at one await at *)
(* a time: frame.pc names the collaborator call whose result is awaited.   *)
(* The action that leaves a pc picks that call's result and runs the code  *)
(* up to the next await.  `awaited` is the execution runBot awaits, and    *)
(* `firings` is the bag of the executions started by timer ticks, which    *)
(* have no identity in the program.                                        *)
(*                                                                         *)
(* Numbers are JavaScript numbers restricted to exact rationals plus NaN,   *)
(* the infinities and undefined: [k, n, d] with k in {"fin", "pinf",       *)
(* "ninf", "nan", "undef"}.                                                *)
(*                                                                         *)
(* Spec follows runBot over lists of up to MaxTrades trades, FiringSpec    *)
(* over every configuration of a single trade, and CalcSpec follows one    *)
(* call of calculateWeight with the requests of getSMA one by one.         *)
(***************************************************************************)
EXTENDS Integers, Sequences, FiniteSets, Bags, TLC

\* ------------------------------------------------------------------ bounds
MaxTrades == 2
MaxTicks == 1

\* ------------------------------------------------------- program constants
NUM_TRADE_THRESHOLD == 5
SMA_TRIES_LIMIT == 3

\* ------------------------------------------------------ extended numbers
Abs(x) == IF x < 0 THEN -x ELSE x

Sgn(x) == IF x < 0 THEN -1 ELSE IF x > 0 THEN 1 ELSE 0

RECURSIVE GCD(_, _)
GCD(a, b) == IF b = 0 THEN a ELSE GCD(b, a % b)

\* the rational n/d (d > 0) in lowest terms
Fin(n, d) ==
    LET g == GCD(Abs(n), d)
    IN  [k |-> "fin", n |-> n \div g, d |-> d \div g]

NaN == [k |-> "nan", n |-> 0, d |-> 1]

Undef == [k |-> "undef", n |-> 0, d |-> 1]

PInf == [k |-> "pinf", n |-> 0, d |-> 1]

NInf == [k |-> "ninf", n |-> 0, d |-> 1]

\* a value whose numeric value is NaN (ToNumber(undefined) is NaN)
IsNaN(x) == x.k \in {"nan", "undef"}

\* sign of an extended number that is not NaN
XSgn(x) == IF x.k = "pinf" THEN 1 ELSE IF x.k = "ninf" THEN -1 ELSE Sgn(x.n)

SignedInf(s) == IF s > 0 THEN PInf ELSE NInf

\* x / y of JavaScript
XDiv(x, y) ==
    IF IsNaN(x) \/ IsNaN(y) THEN NaN
    ELSE IF x.k = "fin" /\ y.k = "fin"
         THEN IF y.n = 0
              THEN IF x.n = 0 THEN NaN ELSE SignedInf(Sgn(x.n))
              ELSE Fin(x.n * y.d * Sgn(y.n), x.d * Abs(y.n))
    ELSE IF x.k = "fin" THEN Fin(0, 1)
    ELSE IF y.k = "fin" THEN SignedInf(XSgn(x) * (IF y.n < 0 THEN -1 ELSE 1))
    ELSE NaN

\* x * y of JavaScript
XMul(x, y) ==
    IF IsNaN(x) \/ IsNaN(y) THEN NaN
    ELSE IF x.k = "fin" /\ y.k = "fin" THEN Fin(x.n * y.n, x.d * y.d)
    ELSE IF XSgn(x) = 0 \/ XSgn(y) = 0 THEN NaN
    ELSE SignedInf(XSgn(x) * XSgn(y))

\* x - y of JavaScript
XSub(x, y) ==
    IF IsNaN(x) \/ IsNaN(y) THEN NaN
    ELSE IF x.k = "fin" /\ y.k = "fin" THEN Fin(x.n * y.d - y.n * x.d, x.d * y.d)
    ELSE IF x.k = "fin" THEN SignedInf(-XSgn(y))
    ELSE IF y.k = "fin" THEN x
    ELSE IF x.k = y.k THEN NaN
    ELSE x

\* x > 0 of JavaScript (false for NaN)
XGtZero(x) == x.k = "pinf" \/ (x.k = "fin" /\ x.n > 0)

\* Number.prototype.toFixed(2): the amount in hundredths, rounded half away
\* from zero; NaN and the infinities print as themselves
ToFixed2(x) ==
    IF x.k # "fin" THEN x
    ELSE Fin(Sgn(x.n) * ((200 * Abs(x.n) + x.d) \div (2 * x.d)), 100)

\* v == 0 of JavaScript for a number, a numeric string or undefined
LooseEqZero(x) == x.k = "fin" /\ x.n = 0

\* a configured amount as a JavaScript value: 0 stands for an absent field
Val(v) == IF v = 0 THEN Undef ELSE Fin(v, 1)

\* numeric equality of two values (never true of NaN or undefined)
XEq(x, y) ==
    /\ x.k \notin {"nan", "undef"}
    /\ y.k \notin {"nan", "undef"}
    /\ x.k = y.k
    /\ x.k = "fin" => x.n * y.d = y.n * x.d

\* a weight parameter given in tenths
Tenths(v) == Fin(v, 10)

\* ------------------------------------------------------------ configuration
\* WeightSpecs: maxATHFactor, mayerMultipleAvg, mayerMultipleMax in tenths.
\* Weights[1] is the documented example, Weights[2] has Avg = Max,
\* Weights[3] is a second well-formed spec.
Weights ==
    << [maxATHFactor |-> 10, ATH |-> 50000, mayerMultipleAvg |-> 12, mayerMultipleMax |-> 24],
       [maxATHFactor |-> 10, ATH |-> 50000, mayerMultipleAvg |-> 24, mayerMultipleMax |-> 24],
       [maxATHFactor |-> 15, ATH |-> 60000, mayerMultipleAvg |-> 10, mayerMultipleMax |-> 20] >>

\* a TradeSpec; "" is a missing asset or currency, 0 a missing quantity or
\* quoteOrderQty, weight 0 a missing weight, schedule FALSE a missing schedule
Trade(a, c, q, qq, s, w) ==
    [asset |-> a, currency |-> c, quantity |-> q, quoteOrderQty |-> qq,
     schedule |-> s, weight |-> w]

TradeTemplates ==
    { Trade("BTC", "USD", 0, 100, FALSE, 0),    \* spend, immediate
      Trade("BTC", "USD", 0, 100, TRUE, 1),     \* spend, scheduled, weighted
      Trade("BTC", "USD", 0, 100, FALSE, 2),    \* weighted with Avg = Max
      Trade("ETH", "EUR", 1, 0, TRUE, 0),       \* fixed quantity, scheduled
      Trade("BTC", "USD", 1, 100, FALSE, 0),    \* both sizes
      Trade("", "USD", 0, 100, FALSE, 0),       \* asset missing
      Trade("BTC", "USD", 0, 0, TRUE, 0) }      \* no size

TradeLists == UNION { [1..n -> TradeTemplates] : n \in 0..MaxTrades }

\* ------------------------------------------------------------ environment
\* what one upstream request of the indicator source can produce
SmaValues == {20000}

UpstreamResponses ==
    [t : {"value"}, v : SmaValues] \cup [t : {"error", "exception"}, v : {0}]

\* bid prices of the order-book ticker
Prices == {25000, 50000}

\* results of an order submission: orderId 0 is a result without orderId,
\* msg "" a result without msg
OrderResults ==
    { [orderId |-> 7, msg |-> "", cummulativeQuoteQty |-> 50],
      [orderId |-> 0, msg |-> "Account has insufficient balance", cummulativeQuoteQty |-> 0],
      [orderId |-> 0, msg |-> "", cummulativeQuoteQty |-> 0] }

FreeValues == {100, 250, 500}

\* account snapshots: the balances list
AccountSnapshots ==
    { << [asset |-> "BTC", free |-> 1], [asset |-> "USD", free |-> f],
         [asset |-> "EUR", free |-> f] >> : f \in FreeValues }
    \cup { << [asset |-> "BTC", free |-> 1] >> }

\* a notification send or a persistence write ends in success (TRUE) or in
\* a failure the collaborator has logged (FALSE); it does not raise
SendOutcomes == BOOLEAN

SaveOutcomes == BOOLEAN

\* ------------------------------------------------------------ TAAPI.getSMA
\* The retry loop over the upstream responses rs, from attempt `tries` on:
\* the value found and the number of requests issued.  A body error and a
\* transport exception both go on to the next attempt; leaving the loop
\* returns undefined.
RECURSIVE GetSMAFrom(_, _, _)
GetSMAFrom(rs, tries, requests) ==
    IF ~(tries < SMA_TRIES_LIMIT) \/ tries > Len(rs)
    THEN [value |-> Undef, requests |-> requests]
    ELSE IF rs[tries].t = "value"
         THEN [value |-> Fin(rs[tries].v, 1), requests |-> requests + 1]
         ELSE GetSMAFrom(rs, tries + 1, requests + 1)

GetSMA(rs) == GetSMAFrom(rs, 1, 0)

\* the upstream behaviours a call of getSMA can meet
SmaScripts == [1..SMA_TRIES_LIMIT -> UpstreamResponses]

\* -------------------------------------------------------- calculateWeight
One == Fin(1, 1)

\* ClampMayerFactor without the clamp
ClampMayerFactorOff(mayerFactor) == mayerFactor

\* the clamp of line 161: negative values and NaN become 0
ClampMayerFactor(mayerFactor) ==
    IF XGtZero(mayerFactor) THEN mayerFactor ELSE Fin(0, 1)

\* the mayer factor actually used, lines 149 and 156-161
MayerFactor(weight, sma, currentPrice) ==
    LET mayerMultiple == XDiv(currentPrice, sma)
        mayerWeightConstant ==
            XDiv(One, XSub(One, XDiv(Tenths(weight.mayerMultipleAvg),
                                     Tenths(weight.mayerMultipleMax))))
        currentWeightMultiple ==
            XSub(One, XDiv(mayerMultiple, Tenths(weight.mayerMultipleMax)))
    IN  ClampMayerFactor(XMul(mayerWeightConstant, currentWeightMultiple))

\* lines 152-153
AthFactor(weight, currentPrice) ==
    LET a == XSub(Tenths(weight.maxATHFactor), XDiv(currentPrice, Fin(weight.ATH, 1)))
    IN  XMul(a, a)

\* the value calculateWeight returns for a trade, given the moving average
\* getSMA returned and the bid price of the ticker
CalculateWeight(trade, sma, bidPrice) ==
    LET weight == Weights[trade.weight]
        currentPrice == Fin(bidPrice, 1)
        mayerFactor == MayerFactor(weight, sma, currentPrice)
        athFactor == AthFactor(weight, currentPrice)
        updatedQuoteOrderQty == XMul(XMul(Val(trade.quoteOrderQty), mayerFactor), athFactor)
    IN  ToFixed2(updatedQuoteOrderQty)

\* the configurations of one trade: the templates above, a fixed quantity
\* with a weight, a weight with another currency than USD, and both sizes
\* without asset
FiringTemplates ==
    TradeTemplates \cup
    { Trade("BTC", "USD", 1, 0, TRUE, 1),
      Trade("ETH", "EUR", 0, 100, FALSE, 1),
      Trade("", "USD", 1, 100, FALSE, 0) }

FiringLists == [1..1 -> FiringTemplates]

\* ------------------------------------------------------------------- state
VARIABLES
    TRADES,      \* the configured trade list
    hasKeys,     \* BINANCE_KEY and BINANCE_SECRET are both set
    mainPc,      \* where runBot is
    idx,         \* index of the trade the loop of runBot is at
    failure,     \* the error runBot ended with, "" when none
    registered,  \* indexes of the trades cron.scheduleJob was called for
    executed,    \* indexes of the trades runBot called placeOrder for
    submitted,   \* indexes of the trades binance.marketBuy was called for
    ticks,       \* number of timer ticks so far
    awaited,     \* the execution of placeOrder runBot awaits, Idle when none
    firings,     \* the executions of placeOrder started by timer ticks
    calc         \* a call of calculateWeight followed step by step, NoCalc when none

\* the state of runBot, of its timers and of the executions of placeOrder
runVars == << TRADES, hasKeys, mainPc, idx, failure, registered, executed,
              submitted, ticks, awaited, firings >>

vars == << runVars, calc >>

\* where an execution lives
Slots == {"awaited", "timer"}

\* no answer of binance.marketBuy yet
NoResponse == [orderId |-> 0, msg |-> "", cummulativeQuoteQty |-> -1]

\* no execution
Idle ==
    [pc |-> "idle", trade |-> 0, log |-> << >>, sma |-> Undef, smaRequests |-> 0,
     qty |-> Undef, sentQuantity |-> Undef, sentQuote |-> Undef,
     response |-> NoResponse, errorText |-> "", totalCost |-> 0, free |-> -1,
     sideFailed |-> FALSE]

GenericError == "Unexpected error placing buy order"

\* no call of calculateWeight is followed
NoCalc ==
    [pc |-> "idle", trade |-> Trade("", "", 0, 0, FALSE, 0), tries |-> 0,
     requests |-> 0, responses |-> << >>, slept |-> 0, sma |-> Undef,
     bidPrice |-> 0, mayerFactor |-> Undef, result |-> Undef]

\* ---------------------------------------------------------------- runBot
\* line 245
InvalidTrade(t) ==
    (t.quantity = 0 /\ t.quoteOrderQty = 0) \/ t.asset = "" \/ t.currency = ""

\* line 250
ConflictingSize(t) == t.quantity # 0 /\ t.quoteOrderQty # 0

\* Weighted without the currency test
WeightedAnyCurrency(t) == t.weight # 0

\* line 86: the trades whose spend amount is computed by calculateWeight
Weighted(t) == t.weight # 0 /\ t.currency = "USD"

\* ------------------------------------------------------------- placeOrder
\* AfterResolve without the zero check of line 88
AfterResolveNoSkip(fr, qty) ==
    [fr EXCEPT !.qty = qty, !.pc = "marketBuy",
               !.log = Append(@, "binance.marketBuy"),
               !.sentQuantity = Val(TRADES[fr.trade].quantity),
               !.sentQuote = qty]

\* lines 88-93, once the spend amount qty is known: the skip notification
\* or the order submission
AfterResolve(fr, qty) ==
    IF LooseEqZero(qty)
    THEN [fr EXCEPT !.qty = qty, !.pc = "telegramSkipped",
                    !.log = Append(@, "telegram:skipped")]
    ELSE [fr EXCEPT !.qty = qty, !.pc = "marketBuy",
                    !.log = Append(@, "binance.marketBuy"),
                    !.sentQuantity = Val(TRADES[fr.trade].quantity),
                    !.sentQuote = qty]

\* lines 82-93: placeOrder of trade i up to its first await
PlaceOrderBegin(i) ==
    IF Weighted(TRADES[i])
    THEN [Idle EXCEPT !.trade = i, !.pc = "getSMA", !.log = << "ta.getSMA" >>]
    ELSE AfterResolve([Idle EXCEPT !.trade = i], Val(TRADES[i].quoteOrderQty))

\* the trades a step from frame fr to frame nf calls binance.marketBuy for
NewlySubmitted(nf) == IF nf.pc = "marketBuy" THEN {nf.trade} ELSE {}

Init ==
    /\ TRADES \in TradeLists
    /\ hasKeys \in BOOLEAN
    /\ mainPc = "start"
    /\ idx = 1
    /\ failure = ""
    /\ registered = {}
    /\ executed = {}
    /\ submitted = {}
    /\ ticks = 0
    /\ awaited = Idle
    /\ firings = EmptyBag
    /\ calc = NoCalc

\* the bot started with a single configured trade
FiringInit ==
    /\ TRADES \in FiringLists
    /\ hasKeys \in BOOLEAN
    /\ mainPc = "start"
    /\ idx = 1
    /\ failure = ""
    /\ registered = {}
    /\ executed = {}
    /\ submitted = {}
    /\ ticks = 0
    /\ awaited = Idle
    /\ firings = EmptyBag
    /\ calc = NoCalc

\* An execution that has ended: placeOrder returned or raised
Ended(fr) == fr.pc \in {"returned", "threw"}

\* JavaScript runs a job to completion: the continuation of an execution that
\* has ended and the synchronous loop of runBot are not interleaved with the
\* handling of another event.  No job is running when runBot is suspended at
\* an await (or over) and no execution has just ended.
EventLoopIdle ==
    /\ mainPc # "loop"
    /\ ~Ended(awaited)
    /\ \A fr \in BagToSet(firings) : ~Ended(fr)

\* CheckForParameters without the test of the credentials
CheckForParametersIgnoresKeys ==
    /\ mainPc = "start"
    /\ mainPc' = IF Len(TRADES) = 0 THEN "returned" ELSE "getAccountInfo"
    /\ UNCHANGED << calc, TRADES, hasKeys, idx, failure, registered, executed,
                    submitted, ticks, awaited, firings >>

\* lines 199-211 and 217: the parameter check, then the account request
CheckForParameters ==
    /\ mainPc = "start"
    /\ mainPc' = IF ~hasKeys \/ Len(TRADES) = 0 THEN "returned" ELSE "getAccountInfo"
    /\ UNCHANGED << calc, TRADES, hasKeys, idx, failure, registered, executed,
                    submitted, ticks, awaited, firings >>

\* lines 217-230 and 238-240: the account answers
CheckForBinanceConnectivity ==
    /\ mainPc = "getAccountInfo"
    /\ EventLoopIdle
    /\ \E answer \in {"msg", "cannotTrade", "canTrade"} :
          /\ mainPc' = CASE answer = "msg" -> "failed"
                          [] answer = "cannotTrade" -> "returned"
                          [] OTHER -> "loop"
          /\ failure' = IF answer = "msg" THEN "connectivity" ELSE failure
    /\ UNCHANGED << calc, TRADES, hasKeys, idx, registered, executed, submitted,
                    ticks, awaited, firings >>

\* SkipInvalidTrade that ends runBot instead of going on to the next trade
SkipInvalidTradeAborts ==
    /\ mainPc = "loop" /\ idx <= Len(TRADES)
    /\ InvalidTrade(TRADES[idx])
    /\ mainPc' = "failed"
    /\ failure' = "InvalidTrade"
    /\ UNCHANGED << calc, TRADES, hasKeys, idx, registered, executed, submitted,
                    ticks, awaited, firings >>

\* lines 245-248
SkipInvalidTrade ==
    /\ mainPc = "loop" /\ idx <= Len(TRADES)
    /\ InvalidTrade(TRADES[idx])
    /\ idx' = idx + 1
    /\ UNCHANGED << calc, TRADES, hasKeys, mainPc, failure, registered, executed,
                    submitted, ticks, awaited, firings >>

\* lines 250-252
ThrowConflictingSize ==
    /\ mainPc = "loop" /\ idx <= Len(TRADES)
    /\ ~InvalidTrade(TRADES[idx])
    /\ ConflictingSize(TRADES[idx])
    /\ mainPc' = "failed"
    /\ failure' = "ConflictingSize"
    /\ UNCHANGED << calc, TRADES, hasKeys, idx, registered, executed, submitted,
                    ticks, awaited, firings >>

\* lines 262-263: a trade without schedule is executed and awaited
ExecuteImmediately ==
    /\ mainPc = "loop" /\ idx <= Len(TRADES)
    /\ ~InvalidTrade(TRADES[idx]) /\ ~ConflictingSize(TRADES[idx])
    /\ ~TRADES[idx].schedule
    /\ LET nf == PlaceOrderBegin(idx)
       IN  /\ awaited' = nf
           /\ submitted' = submitted \cup NewlySubmitted(nf)
    /\ executed' = executed \cup {idx}
    /\ mainPc' = "placeOrder"
    /\ UNCHANGED << calc, TRADES, hasKeys, idx, failure, registered, ticks, firings >>

\* lines 264-266: a trade with a schedule gets a timer
ScheduleJob ==
    /\ mainPc = "loop" /\ idx <= Len(TRADES)
    /\ ~InvalidTrade(TRADES[idx]) /\ ~ConflictingSize(TRADES[idx])
    /\ TRADES[idx].schedule
    /\ registered' = registered \cup {idx}
    /\ idx' = idx + 1
    /\ UNCHANGED << calc, TRADES, hasKeys, mainPc, failure, executed, submitted,
                    ticks, awaited, firings >>

\* line 263: the awaited placeOrder returned, the loop goes on
PlaceOrderReturned ==
    /\ mainPc = "placeOrder" /\ awaited.pc = "returned"
    /\ awaited' = Idle
    /\ mainPc' = "loop"
    /\ idx' = idx + 1
    /\ UNCHANGED << calc, TRADES, hasKeys, failure, registered, executed, submitted,
                    ticks, firings >>

\* line 263: the awaited placeOrder raised; nothing in runBot catches it
PlaceOrderRaised ==
    /\ mainPc = "placeOrder" /\ awaited.pc = "threw"
    /\ awaited' = Idle
    /\ mainPc' = "failed"
    /\ failure' = "placeOrder"
    /\ UNCHANGED << calc, TRADES, hasKeys, idx, registered, executed, submitted,
                    ticks, firings >>

\* lines 269-273: the startup summary is sent after the loop
SendSummary ==
    /\ mainPc = "loop" /\ idx > Len(TRADES)
    /\ mainPc' = "summary"
    /\ UNCHANGED << calc, TRADES, hasKeys, idx, failure, registered, executed,
                    submitted, ticks, awaited, firings >>

\* line 274
SummarySent ==
    /\ mainPc = "summary"
    /\ EventLoopIdle
    /\ mainPc' = "done"
    /\ UNCHANGED << calc, TRADES, hasKeys, idx, failure, registered, executed,
                    submitted, ticks, awaited, firings >>

\* lines 117-119: index of the first balance of the currency, 0 when none
RECURSIVE FindFrom(_, _, _)
FindFrom(balances, currency, k) ==
    IF k > Len(balances) THEN 0
    ELSE IF balances[k].asset = currency THEN k
    ELSE FindFrom(balances, currency, k + 1)

FindBalance(balances, currency) == FindFrom(balances, currency, 1)

\* LowBalance with an inclusive comparison
LowBalanceInclusive(totalCost, free) == totalCost * NUM_TRADE_THRESHOLD >= free

\* line 121
LowBalance(totalCost, free) == totalCost * NUM_TRADE_THRESHOLD > free

\* binance.getOrderDetails: the total cost of the normalized detail record
OrderTotalCost(response) == response.cummulativeQuoteQty

\* the executions in a slot
InSlot(slot) ==
    IF slot = "awaited" THEN (IF awaited.pc = "idle" THEN {} ELSE {awaited})
    ELSE BagToSet(firings)

\* the answer of the call the execution fr of a slot awaits is handled, and
\* the execution goes on as nf; runBot and the timers stay as they are
Put(slot, fr, nf) ==
    /\ EventLoopIdle
    /\ IF slot = "awaited"
       THEN awaited' = nf /\ UNCHANGED firings
       ELSE firings' = (firings (-) SetToBag({fr})) (+) SetToBag({nf}) /\ UNCHANGED awaited
    /\ submitted' = submitted \cup NewlySubmitted(nf)
    /\ UNCHANGED << calc, TRADES, hasKeys, mainPc, idx, failure, registered, executed, ticks >>

\* the calls after an accepted order whose failure a frame remembers: the
\* persistence write and the success mail.  placeOrder ignores what any of
\* the notification and persistence calls returns.
Remembered == {"saveOrder", "sendGridExecuted"}

\* the frame fr after a collaborator answered with outcome ok: the code goes
\* on to `next`, whatever the outcome
Answered(fr, ok, next, entry) ==
    [fr EXCEPT
        !.sideFailed = @ \/ (~ok /\ fr.pc \in Remembered),
        !.pc = next,
        !.log = IF entry = "" THEN @ ELSE Append(@, entry)]

\* lines 146-147: getSMA returned, the ticker is requested
GetSMAReturns(slot, fr) ==
    /\ fr.pc = "getSMA"
    /\ \E rs \in SmaScripts :
          LET r == GetSMA(rs)
          IN  Put(slot, fr, [fr EXCEPT !.sma = r.value, !.smaRequests = r.requests,
                                       !.pc = "getBookTicker",
                                       !.log = Append(@, "binance.getBookTicker")])

\* lines 147-177 and 86-93: the ticker answered, the weight is calculated.
\* The request count of getSMA is not kept beyond calculateWeight.
GetBookTickerReturns(slot, fr) ==
    /\ fr.pc = "getBookTicker"
    /\ \E bidPrice \in Prices :
          Put(slot, fr, AfterResolve([fr EXCEPT !.smaRequests = 0],
                           CalculateWeight(TRADES[fr.trade], fr.sma, bidPrice)))

\* lines 89-90: the skip notification was sent, placeOrder returns
SkipNotified(slot, fr) ==
    /\ fr.pc = "telegramSkipped"
    /\ \E ok \in SendOutcomes : Put(slot, fr, Answered(fr, ok, "returned", ""))

\* OrderAccepted that sends the success mail before the order is saved
OrderAcceptedNotifyFirst(slot, fr) ==
    /\ fr.pc = "marketBuy"
    /\ \E response \in OrderResults :
          /\ response.orderId # 0
          /\ Put(slot, fr, [fr EXCEPT !.response = response,
                                      !.totalCost = response.cummulativeQuoteQty,
                                      !.pc = "sendGridExecuted",
                                      !.log = Append(@, "sendGrid:executed")])

\* lines 93-101: the order was accepted, the order is saved
OrderAccepted(slot, fr) ==
    /\ fr.pc = "marketBuy"
    /\ \E response \in OrderResults :
          /\ response.orderId # 0
          /\ Put(slot, fr, [fr EXCEPT !.response = response,
                                      !.totalCost = OrderTotalCost(response),
                                      !.pc = "saveOrder",
                                      !.log = Append(@, "mongoDb.saveOrder")])

\* ErrorText that drops the upstream message
ErrorTextGeneric(response) == GenericError

\* line 127
ErrorText(response) == IF response.msg # "" THEN response.msg ELSE GenericError

\* lines 93-95 and 126-130: the order was rejected, the failure mail is sent
OrderRejected(slot, fr) ==
    /\ fr.pc = "marketBuy"
    /\ \E response \in OrderResults :
          /\ response.orderId = 0
          /\ Put(slot, fr, [fr EXCEPT !.response = response,
                                      !.errorText = ErrorText(response),
                                      !.pc = "sendGridFailed",
                                      !.log = Append(@, "sendGrid:failed")])

\* SaveOrderReturns that treats a failed save as a failed order
SaveOrderEscalates(slot, fr) ==
    /\ fr.pc = "saveOrder"
    /\ \E ok \in SaveOutcomes :
          Put(slot, fr, IF ok THEN [fr EXCEPT !.pc = "sendGridExecuted",
                                             !.log = Append(@, "sendGrid:executed")]
                        ELSE [fr EXCEPT !.sideFailed = TRUE,
                                        !.errorText = GenericError,
                                        !.pc = "sendGridFailed",
                                        !.log = Append(@, "sendGrid:failed")])

\* lines 101-103: the save ended, the success mail is sent
SaveOrderReturns(slot, fr) ==
    /\ fr.pc = "saveOrder"
    /\ \E ok \in SaveOutcomes :
          Put(slot, fr, Answered(fr, ok, "sendGridExecuted", "sendGrid:executed"))

\* lines 103-113: the success mail ended, the chat message is sent
SendGridExecutedReturns(slot, fr) ==
    /\ fr.pc = "sendGridExecuted"
    /\ \E ok \in SendOutcomes :
          Put(slot, fr, Answered(fr, ok, "telegramExecuted", "telegram:executed"))

\* lines 106-115: the chat message ended, the account is requested
TelegramExecutedReturns(slot, fr) ==
    /\ fr.pc = "telegramExecuted"
    /\ \E ok \in SendOutcomes :
          Put(slot, fr, Answered(fr, ok, "getAccountInfo", "binance.getAccountInfo"))

\* lines 115-125: the account answered; reading balance.free of a missing
\* balance raises a TypeError out of placeOrder
GetAccountInfoReturns(slot, fr) ==
    /\ fr.pc = "getAccountInfo"
    /\ \E balances \in AccountSnapshots :
          LET k == FindBalance(balances, TRADES[fr.trade].currency)
          IN  Put(slot, fr,
                  IF k = 0 THEN [fr EXCEPT !.pc = "threw"]
                  ELSE IF LowBalance(fr.totalCost, balances[k].free)
                       THEN [fr EXCEPT !.free = balances[k].free,
                                       !.pc = "telegramBalanceLow",
                                       !.log = Append(@, "telegram:balanceLow")]
                       ELSE [fr EXCEPT !.free = balances[k].free, !.pc = "returned"])

\* lines 122-125: the low-balance warning ended
BalanceLowNotified(slot, fr) ==
    /\ fr.pc = "telegramBalanceLow"
    /\ \E ok \in SendOutcomes : Put(slot, fr, Answered(fr, ok, "returned", ""))

\* lines 130-134: the failure mail ended, the failure chat message is sent
SendGridFailedReturns(slot, fr) ==
    /\ fr.pc = "sendGridFailed"
    /\ \E ok \in SendOutcomes :
          Put(slot, fr, Answered(fr, ok, "telegramFailed", "telegram:failed"))

\* lines 131-136: the failure chat message ended
TelegramFailedReturns(slot, fr) ==
    /\ fr.pc = "telegramFailed"
    /\ \E ok \in SendOutcomes : Put(slot, fr, Answered(fr, ok, "returned", ""))

\* the number of ticks a run is followed for: one more when a single trade
\* is configured, so that a trade has one firing more than the others
TickLimit == IF Len(TRADES) = 1 THEN MaxTicks + 1 ELSE MaxTicks

\* Tick that waits for the executions of the same trade to end
TickExclusive(i) ==
    /\ i \in registered
    /\ ticks < TickLimit
    /\ EventLoopIdle
    /\ \A fr \in BagToSet(firings) : fr.trade # i
    /\ ticks' = ticks + 1
    /\ LET nf == PlaceOrderBegin(i)
       IN  /\ firings' = firings (+) SetToBag({nf})
           /\ submitted' = submitted \cup NewlySubmitted(nf)
    /\ UNCHANGED << calc, TRADES, hasKeys, mainPc, idx, failure, registered, executed,
                    awaited >>

\* line 265: a registered timer ticks and its callback calls placeOrder
Tick(i) ==
    /\ i \in registered
    /\ ticks < TickLimit
    /\ EventLoopIdle
    /\ ticks' = ticks + 1
    /\ LET nf == PlaceOrderBegin(i)
       IN  /\ firings' = firings (+) SetToBag({nf})
           /\ submitted' = submitted \cup NewlySubmitted(nf)
    /\ UNCHANGED << calc, TRADES, hasKeys, mainPc, idx, failure, registered, executed,
                    awaited >>

\* line 265: the callback of a tick ends, by a return or by an error
FiringEnds(fr) ==
    /\ BagIn(fr, firings)
    /\ Ended(fr)
    /\ firings' = firings (-) SetToBag({fr})
    /\ UNCHANGED << calc, TRADES, hasKeys, mainPc, idx, failure, registered,
                    executed, submitted, ticks, awaited >>

PlaceOrderStep(slot, fr) ==
    \/ GetSMAReturns(slot, fr)
    \/ GetBookTickerReturns(slot, fr)
    \/ SkipNotified(slot, fr)
    \/ OrderAccepted(slot, fr)
    \/ OrderRejected(slot, fr)
    \/ SaveOrderReturns(slot, fr)
    \/ SendGridExecutedReturns(slot, fr)
    \/ TelegramExecutedReturns(slot, fr)
    \/ GetAccountInfoReturns(slot, fr)
    \/ BalanceLowNotified(slot, fr)
    \/ SendGridFailedReturns(slot, fr)
    \/ TelegramFailedReturns(slot, fr)

Next ==
    \/ CheckForParameters
    \/ CheckForBinanceConnectivity
    \/ SkipInvalidTrade
    \/ ThrowConflictingSize
    \/ ExecuteImmediately
    \/ ScheduleJob
    \/ PlaceOrderReturned
    \/ PlaceOrderRaised
    \/ SendSummary
    \/ SummarySent
    \/ \E i \in 1..MaxTrades : Tick(i)
    \/ \E fr \in BagToSet(firings) : FiringEnds(fr)
    \/ \E slot \in Slots : \E fr \in InSlot(slot) : PlaceOrderStep(slot, fr)

Spec == Init /\ [][Next]_vars

TypeOK ==
    /\ mainPc \in {"start", "getAccountInfo", "loop", "placeOrder", "summary",
                   "done", "returned", "failed"}
    /\ idx \in 1..(MaxTrades + 1)
    /\ ticks \in 0..(MaxTicks + 1)
    /\ BagCardinality(firings) <= ticks
    /\ calc = NoCalc

\* the single-trade runs: the same program started with one configured trade
FiringSpec == FiringInit /\ [][Next]_vars

\* ------------------------------------- calculateWeight and getSMA by steps
\* One call of calculateWeight (lines 141-179) with the call of TAAPI.getSMA
\* it awaits (lines 512-548) followed request by request.  calc.pc is "loop"
\* at the loop test of getSMA, "fetch" while a request is outstanding,
\* "sleep" during the backoff, "getBookTicker" once getSMA has returned and
\* "returned" when calculateWeight has.

\* the moving averages the indicator source can report
IndicatorValues == SmaValues \cup {40000}

\* the bid prices of the ticker
TickerPrices == Prices \cup {10000, 60000}

\* the trades calculateWeight is called for
CalcTrades ==
    { Trade("BTC", "USD", 0, b, TRUE, w) : b \in {50, 100}, w \in 1..3 }
    \cup { Trade("BTC", "USD", 1, 0, TRUE, 1) }

CalcInit ==
    /\ TRADES = << >>
    /\ hasKeys = FALSE
    /\ mainPc = "start"
    /\ idx = 1
    /\ failure = ""
    /\ registered = {}
    /\ executed = {}
    /\ submitted = {}
    /\ ticks = 0
    /\ awaited = Idle
    /\ firings = EmptyBag
    /\ \E t \in CalcTrades : calc = [NoCalc EXCEPT !.trade = t, !.pc = "loop", !.tries = 1]

\* SmaRequest with one more attempt than line 526 allows
SmaRequestOnceMore ==
    /\ calc.pc = "loop"
    /\ calc.tries < SMA_TRIES_LIMIT + 1
    /\ calc' = [calc EXCEPT !.pc = "fetch", !.requests = @ + 1]
    /\ UNCHANGED runVars

\* lines 526-528: the loop test holds and the request is issued
SmaRequest ==
    /\ calc.pc = "loop"
    /\ calc.tries < SMA_TRIES_LIMIT
    /\ calc' = [calc EXCEPT !.pc = "fetch", !.requests = @ + 1]
    /\ UNCHANGED runVars

\* lines 526 and 547-548: the loop test fails, getSMA returns undefined
SmaFallsOut ==
    /\ calc.pc = "loop"
    /\ ~(calc.tries < SMA_TRIES_LIMIT)
    /\ calc' = [calc EXCEPT !.pc = "getBookTicker", !.sma = Undef]
    /\ UNCHANGED runVars

\* lines 535-542: the body has no error, getSMA returns its value
SmaReturnsValue ==
    /\ calc.pc = "fetch"
    /\ \E v \in IndicatorValues :
          calc' = [calc EXCEPT !.responses = Append(@, [t |-> "value", v |-> v]),
                               !.sma = Fin(v, 1), !.pc = "getBookTicker"]
    /\ UNCHANGED runVars

\* lines 535-538: the body reports an error, getSMA waits 15000*tries ms
SmaReportsError ==
    /\ calc.pc = "fetch"
    /\ calc' = [calc EXCEPT !.responses = Append(@, [t |-> "error", v |-> 0]),
                            !.pc = "sleep"]
    /\ UNCHANGED runVars

\* lines 538-539 and 526: the wait is over, the loop continues
SmaSleepEnds ==
    /\ calc.pc = "sleep"
    /\ calc' = [calc EXCEPT !.slept = @ + 15 * calc.tries, !.tries = @ + 1,
                            !.pc = "loop"]
    /\ UNCHANGED runVars

\* SmaRaises that lets the exception out of getSMA
SmaRaisesEscapes ==
    /\ calc.pc = "fetch"
    /\ calc' = [calc EXCEPT !.responses = Append(@, [t |-> "exception", v |-> 0]),
                            !.pc = "threw"]
    /\ UNCHANGED runVars

\* lines 528-533, 543-545 and 526: the request or the parsing of its body
\* raises, the exception is caught and logged, the loop goes on
SmaRaises ==
    /\ calc.pc = "fetch"
    /\ calc' = [calc EXCEPT !.responses = Append(@, [t |-> "exception", v |-> 0]),
                            !.tries = @ + 1, !.pc = "loop"]
    /\ UNCHANGED runVars

\* lines 147-177: the ticker answers and the weight is calculated
BookTickerAnswers ==
    /\ calc.pc = "getBookTicker"
    /\ \E bidPrice \in TickerPrices :
          calc' = [calc EXCEPT
                      !.bidPrice = bidPrice,
                      !.mayerFactor = MayerFactor(Weights[calc.trade.weight],
                                                  calc.sma, Fin(bidPrice, 1)),
                      !.result = CalculateWeight(calc.trade, calc.sma, bidPrice),
                      !.pc = "returned"]
    /\ UNCHANGED runVars

CalcNext ==
    \/ SmaRequest
    \/ SmaFallsOut
    \/ SmaReturnsValue
    \/ SmaReportsError
    \/ SmaSleepEnds
    \/ SmaRaises
    \/ BookTickerAnswers

CalcSpec == CalcInit /\ [][CalcNext]_vars

\* what getSMA returned agrees with GetSMA applied to the responses received
GetSMARefined ==
    calc.pc \in {"getBookTicker", "returned"} =>
        LET r == GetSMA(calc.responses)
        IN  calc.sma = r.value /\ calc.requests = r.requests

\* ------------------------------------------------------ property helpers
Has(log, e) == \E k \in DOMAIN log : log[k] = e

Count(log, e) == Cardinality({k \in DOMAIN log : log[k] = e})

\* the executions in flight
Executions == InSlot("awaited") \cup InSlot("timer")

TradeOf(fr) == TRADES[fr.trade]

\* the spend amount of the execution has been resolved (line 86)
Resolved(fr) == fr.pc \notin {"idle", "getSMA", "getBookTicker"}

BothSizes(t) == t.quantity # 0 /\ t.quoteOrderQty # 0

Malformed(t) ==
    t.asset = "" \/ t.currency = "" \/ (t.quantity = 0 /\ t.quoteOrderQty = 0)

WellFormed(t) == ~Malformed(t) /\ ~BothSizes(t)

DegenerateWeight(t) ==
    t.weight # 0 /\ Weights[t.weight].mayerMultipleAvg = Weights[t.weight].mayerMultipleMax

\* ---------------------------------------------------------------- claims

\* C1: when startup fails on a trade that has both quantity and
\* quoteOrderQty, no order was submitted and no timer was registered before
\* the failure, wherever the conflicting trade is in the list.
C1_NoSchedulingBeforeConflict ==
    failure = "ConflictingSize" => submitted = {} /\ registered = {} /\ executed = {}

\* C2: a failure in the execution of one trade never prevents the other
\* valid trades from being executed or scheduled: when runBot has ended with
\* an error raised by placeOrder, every well-formed trade after the failing
\* one has still been executed or got its timer.
C2_FailureDoesNotStopOthers ==
    (mainPc = "failed" /\ failure = "placeOrder") =>
        \A j \in (idx + 1)..Len(TRADES) :
            WellFormed(TRADES[j]) => j \in executed \cup registered

\* C3: when getSMA returned no value, the execution of a weighted USD trade
\* (with a weight whose mayerMultipleAvg differs from mayerMultipleMax)
\* submits a market buy with the static quoteOrderQty and does not skip.
C3_FallbackToStaticAmount ==
    \A fr \in Executions :
        ( /\ Weighted(TradeOf(fr)) /\ ~DegenerateWeight(TradeOf(fr))
          /\ Resolved(fr) /\ fr.sma.k = "undef" ) =>
            /\ Has(fr.log, "binance.marketBuy")
            /\ XEq(fr.sentQuote, Val(TradeOf(fr).quoteOrderQty))
            /\ ~Has(fr.log, "telegram:skipped")

\* C4: whenever the spend amount calculateWeight returned is zero, the
\* execution calls no marketBuy, sends the skip notification once and makes no
\* persistence call, no success or failure notification and no balance fetch.
C4_ZeroSpendSkips ==
    \A fr \in Executions :
        (Weighted(TradeOf(fr)) /\ Resolved(fr) /\ LooseEqZero(fr.qty)) =>
            /\ fr.log = << "ta.getSMA", "binance.getBookTicker", "telegram:skipped" >>
            /\ fr.pc \in {"telegramSkipped", "returned"}
            /\ fr.sentQuote = Undef

C4_Witness ==
    \E fr \in Executions :
        /\ Weighted(TradeOf(fr)) /\ fr.pc = "returned"
        /\ fr.sma.k = "fin"
        /\ LooseEqZero(fr.qty)

\* C5: for a trade whose weight has mayerMultipleAvg = mayerMultipleMax no
\* weight calculation and no order submission is ever reached.
C5_DegenerateWeightNeverCalculated ==
    \A fr \in Executions :
        DegenerateWeight(TradeOf(fr)) =>
            /\ ~Has(fr.log, "ta.getSMA")
            /\ ~Has(fr.log, "binance.marketBuy")

\* C6: a trade missing asset or currency, or with neither size, is skipped
\* individually: no order, no execution and no timer ever exists for it;
\* runBot leaves it only by going on to the next trade, never by an error;
\* an error of runBot is never at such a trade; and when the loop has ended
\* every well-formed trade has been executed or got its timer.
C6_Inv ==
    /\ \A i \in DOMAIN TRADES :
          Malformed(TRADES[i]) =>
              /\ i \notin submitted \cup registered \cup executed
              /\ \A fr \in Executions : fr.trade # i
    /\ mainPc \in {"summary", "done"} =>
          \A j \in DOMAIN TRADES :
              WellFormed(TRADES[j]) => j \in executed \cup registered
    /\ (mainPc = "failed" /\ failure # "connectivity") => ~Malformed(TRADES[idx])

C6_SkipStep ==
    ( /\ mainPc = "loop" /\ idx <= Len(TRADES)
      /\ Malformed(TRADES[idx])
      /\ << mainPc, idx, failure >>' # << mainPc, idx, failure >> )
    => /\ mainPc' = "loop" /\ idx' = idx + 1 /\ failure' = ""
       /\ UNCHANGED << registered, executed, submitted, awaited, firings >>

C6_MalformedTradeSkipped == [](C6_Inv) /\ [][C6_SkipStep]_vars

C6_Witness ==
    /\ mainPc = "done"
    /\ \E i, j \in DOMAIN TRADES :
          /\ i < j
          /\ Malformed(TRADES[i])
          /\ WellFormed(TRADES[j])
          /\ j \in executed \cup registered

\* the order of the execution was answered without orderId
Rejected(fr) ==
    /\ Has(fr.log, "binance.marketBuy") /\ fr.pc # "marketBuy"
    /\ fr.response.orderId = 0

\* the order of the execution was answered with an orderId
Accepted(fr) ==
    /\ Has(fr.log, "binance.marketBuy") /\ fr.pc # "marketBuy"
    /\ fr.response.orderId # 0

\* C7: when the order submission returns no orderId, the execution sends
\* exactly one failure notification by mail and one by chat, both carrying
\* the upstream msg, or the generic message when there is none, and makes
\* no persistence call and no balance fetch.
C7_RejectionNotifiedOnce ==
    \A fr \in Executions :
        Rejected(fr) =>
            /\ fr.errorText =
                   (IF fr.response.msg = "" THEN GenericError
                    ELSE fr.response.msg)
            /\ Count(fr.log, "sendGrid:failed") = 1
            /\ Count(fr.log, "telegram:failed") =
                   (IF fr.pc = "sendGridFailed" THEN 0 ELSE 1)
            /\ fr.pc \in {"sendGridFailed", "telegramFailed", "returned"}
            /\ ~Has(fr.log, "mongoDb.saveOrder")
            /\ ~Has(fr.log, "binance.getAccountInfo")
            /\ ~Has(fr.log, "sendGrid:executed")
            /\ ~Has(fr.log, "telegram:executed")

C7_Witness ==
    \E fr \in Executions :
        /\ Rejected(fr) /\ fr.pc = "returned"
        /\ fr.errorText = "Account has insufficient balance"

\* C8: after an accepted order whose balance was fetched, the low-balance
\* warning is sent if and only if totalCost * 5 > freeBalance; equality does
\* not warn.
C8_LowBalanceIff ==
    \A fr \in Executions :
        (Accepted(fr) /\ fr.free >= 0) =>
            (Has(fr.log, "telegram:balanceLow")
                <=> fr.totalCost * 5 > fr.free)

C8_Witness ==
    \E fr \in Executions :
        /\ Accepted(fr) /\ fr.pc = "returned"
        /\ fr.totalCost = 50 /\ fr.free = 250
        /\ ~Has(fr.log, "telegram:balanceLow")

WeightCalls == << "ta.getSMA", "binance.getBookTicker" >>

SuccessCalls ==
    << "binance.marketBuy", "mongoDb.saveOrder", "sendGrid:executed",
       "telegram:executed", "binance.getAccountInfo", "telegram:balanceLow" >>

IsPrefix(s, t) == Len(s) <= Len(t) /\ \A k \in DOMAIN s : s[k] = t[k]

OtherBranch(e) == e \in {"telegram:skipped", "sendGrid:failed", "telegram:failed"}

NotOtherBranch(e) == ~OtherBranch(e)

\* the log entry of the call a frame at pc is suspended at
AwaitedCall(pc) ==
    CASE pc = "getSMA" -> "ta.getSMA"
      [] pc = "getBookTicker" -> "binance.getBookTicker"
      [] pc = "telegramSkipped" -> "telegram:skipped"
      [] pc = "marketBuy" -> "binance.marketBuy"
      [] pc = "saveOrder" -> "mongoDb.saveOrder"
      [] pc = "sendGridExecuted" -> "sendGrid:executed"
      [] pc = "telegramExecuted" -> "telegram:executed"
      [] pc = "getAccountInfo" -> "binance.getAccountInfo"
      [] pc = "telegramBalanceLow" -> "telegram:balanceLow"
      [] pc = "sendGridFailed" -> "sendGrid:failed"
      [] pc = "telegramFailed" -> "telegram:failed"
      [] OTHER -> ""

\* C9: within one execution the calls are issued in the order indicator
\* fetch, ticker fetch, order submission, persist, success mail, success
\* chat message, balance fetch, low-balance warning, and a call is issued
\* only when the previous one has ended: the one call outstanding is the
\* last one issued.
C9_StepsInOrder ==
    \A fr \in Executions :
        /\ IsPrefix(SelectSeq(fr.log, NotOtherBranch),
                    (IF Weighted(TradeOf(fr)) THEN WeightCalls ELSE << >>) \o SuccessCalls)
        /\ fr.pc \notin {"returned", "threw"} =>
               fr.log[Len(fr.log)] = AwaitedCall(fr.pc)

C9_Witness ==
    \E fr \in Executions :
        /\ fr.pc = "returned"
        /\ fr.log = WeightCalls \o SuccessCalls

\* C10: after an accepted order no failure notification is ever sent, and
\* the execution does not end before the success chat message and the
\* balance fetch, also when the order save or the mail send failed.
C10_SideEffectFailuresIgnored ==
    \A fr \in Executions :
        Accepted(fr) =>
            /\ ~Has(fr.log, "sendGrid:failed")
            /\ ~Has(fr.log, "telegram:failed")
            /\ fr.pc \in {"returned", "threw"} =>
                   /\ Has(fr.log, "telegram:executed")
                   /\ Has(fr.log, "binance.getAccountInfo")

C10_Witness ==
    \E fr \in Executions :
        /\ Accepted(fr) /\ fr.pc = "returned"
        /\ fr.sideFailed
        /\ Has(fr.log, "telegram:executed")
        /\ Has(fr.log, "binance.getAccountInfo")

\* a trade runBot executes at once: well-formed and without schedule
Immediate(t) == WellFormed(t) /\ ~t.schedule

\* C11: every valid trade without schedule is executed exactly once, during
\* startup and in list order: only such trades are executed by runBot, none
\* beyond the loop index; the summary is sent only when all of them have
\* been executed and none is still in flight; and when startup is over,
\* also by the failure of one execution, all of them have been executed.
C11_ImmediateExecutedBeforeSummary ==
    /\ \A i \in executed : i <= idx /\ Immediate(TRADES[i])
    /\ mainPc \in {"summary", "done"} =>
          /\ awaited = Idle
          /\ \A j \in DOMAIN TRADES : Immediate(TRADES[j]) => j \in executed
    /\ (mainPc = "failed" /\ failure = "placeOrder") =>
          \A j \in DOMAIN TRADES : Immediate(TRADES[j]) => j \in executed

\* getSMA has returned to calculateWeight
SmaOver == calc.pc \in {"getBookTicker", "returned"}

\* C12: when the first request of getSMA ends in an error body or in an
\* exception and the second one in a value, getSMA returns that value after
\* two requests, and no exception leaves getSMA.
C12_SecondAttemptValueReturned ==
    /\ calc.pc # "threw"
    /\ ( /\ Len(calc.responses) = 2
         /\ calc.responses[1].t \in {"error", "exception"}
         /\ calc.responses[2].t = "value" ) =>
            /\ SmaOver
            /\ calc.sma = Fin(calc.responses[2].v, 1)
            /\ calc.requests = 2

C12_Witness ==
    /\ calc.pc = "returned"
    /\ calc.responses = << [t |-> "exception", v |-> 0], [t |-> "value", v |-> 40000] >>
    /\ calc.sma = Fin(40000, 1)

\* C13: without credentials, with an empty trade list, or when runBot has
\* returned early (also because the account cannot trade), no order was
\* submitted, no execution started, no timer was registered or fired and
\* no summary was sent; and nothing happens after the early return.
C13_Inv ==
    /\ (~hasKeys \/ Len(TRADES) = 0) => mainPc \in {"start", "returned"}
    /\ (~hasKeys \/ Len(TRADES) = 0 \/ mainPc = "returned") =>
          /\ submitted = {} /\ registered = {} /\ executed = {}
          /\ awaited = Idle /\ firings = EmptyBag /\ ticks = 0
          /\ mainPc \notin {"loop", "placeOrder", "summary", "done"}

C13_Step == mainPc = "returned" => UNCHANGED vars

C13_NothingScheduledOnEarlyReturn == [](C13_Inv) /\ [][C13_Step]_vars

C13_Witness ==
    /\ mainPc = "returned"
    /\ hasKeys
    /\ \E i \in DOMAIN TRADES : WellFormed(TRADES[i]) /\ TRADES[i].schedule

\* rounding of a non-negative rational to two decimals
Round2(x) == Fin((200 * x.n + x.d) \div (2 * x.d), 100)

\* the adjusted spend as the formula states it
ClaimedSpend(base, weight, movingAverage, currentPrice) ==
    LET avg == Fin(weight.mayerMultipleAvg, 10)
        max == Fin(weight.mayerMultipleMax, 10)
        mayer == XMul(XDiv(One, XSub(One, XDiv(avg, max))),
                      XSub(One, XDiv(XDiv(currentPrice, movingAverage), max)))
        nonNegative == IF mayer.n > 0 THEN mayer ELSE Fin(0, 1)
        ath == XSub(Fin(weight.maxATHFactor, 10), XDiv(currentPrice, Fin(weight.ATH, 1)))
    IN  Round2(XMul(XMul(base, nonNegative), XMul(ath, ath)))

\* the inputs of the call are valid: a base amount, a weight with
\* mayerMultipleAvg below mayerMultipleMax, and a moving average
ValidCalc ==
    /\ calc.trade.quoteOrderQty > 0
    /\ Weights[calc.trade.weight].mayerMultipleAvg < Weights[calc.trade.weight].mayerMultipleMax
    /\ calc.sma.k = "fin" /\ calc.sma.n > 0

\* C14: for valid inputs calculateWeight returns
\* round(base * max(0, (1/(1 - Avg/Max)) * (1 - (price/sma)/Max))
\*       * (maxATHFactor - price/ATH)^2, 2 decimals);
\* the documented example gives 23.96; and the mayerFactor used is never
\* negative, whatever the inputs.
C14_AdjustedSpendFormula ==
    calc.pc = "returned" =>
        /\ ValidCalc =>
              calc.result = ClaimedSpend(Fin(calc.trade.quoteOrderQty, 1),
                                         Weights[calc.trade.weight],
                                         calc.sma, Fin(calc.bidPrice, 1))
        /\ ( /\ calc.trade.quoteOrderQty = 100 /\ calc.trade.weight = 1
             /\ calc.sma = Fin(20000, 1) /\ calc.bidPrice = 25000 ) =>
              calc.result = Fin(2396, 100)
        /\ calc.mayerFactor.k \in {"fin", "pinf"}
        /\ calc.mayerFactor.n >= 0

C14_Witness ==
    /\ calc.pc = "returned"
    /\ calc.trade.quoteOrderQty = 100 /\ calc.trade.weight = 1
    /\ calc.sma = Fin(20000, 1) /\ calc.bidPrice = 25000
    /\ calc.result = Fin(2396, 100)

\* C15: every call of marketBuy carries exactly one size: the fixed quantity
\* of a trade that has one, and otherwise the resolved spend amount.
C15_ExactlyOneSize ==
    \A fr \in Executions :
        Has(fr.log, "binance.marketBuy") =>
            IF TradeOf(fr).quantity # 0
            THEN fr.sentQuantity = Val(TradeOf(fr).quantity) /\ fr.sentQuote = Undef
            ELSE fr.sentQuantity = Undef /\ fr.sentQuote # Undef

\* C16: runBot never goes past a trade that has both quantity and
\* quoteOrderQty, whatever its other fields are: such a trade is not skipped.
C16_ConflictCheckedFirst ==
    \A i \in DOMAIN TRADES : BothSizes(TRADES[i]) => idx <= i

\* C17: the execution of a trade with a weight and a currency other than USD
\* fetches neither the indicator nor the ticker: its first call is the order
\* submission, with the configured quoteOrderQty.
C17_WeightSkippedForOtherCurrency ==
    \A fr \in Executions :
        (TradeOf(fr).weight # 0 /\ TradeOf(fr).currency # "USD") =>
            /\ ~Has(fr.log, "ta.getSMA")
            /\ ~Has(fr.log, "binance.getBookTicker")
            /\ fr.log[1] = "binance.marketBuy"
            /\ fr.qty = Val(TradeOf(fr).quoteOrderQty)
            /\ fr.sentQuote = Val(TradeOf(fr).quoteOrderQty)

C17_Witness ==
    \E fr \in Executions :
        /\ TradeOf(fr).weight # 0 /\ TradeOf(fr).currency = "EUR"
        /\ fr.pc = "returned"
        /\ fr.sentQuote = Fin(100, 1)
        /\ fr.response.orderId # 0

\* C18: getSMA never issues a third request, no exception leaves it, and
\* when both requests ended in an error body or an exception it returns
\* undefined.
C18_AtMostTwoRequests ==
    /\ calc.requests <= 2
    /\ Len(calc.responses) <= calc.requests
    /\ calc.tries <= 3
    /\ calc.pc \notin {"threw"}
    /\ ( /\ SmaOver
         /\ Len(calc.responses) = 2
         /\ \A k \in 1..2 : calc.responses[k].t \in {"error", "exception"} ) =>
            calc.sma = Undef

C18_Witness ==
    /\ calc.pc = "returned"
    /\ calc.responses = << [t |-> "error", v |-> 0], [t |-> "exception", v |-> 0] >>
    /\ calc.requests = 2
    /\ calc.sma = Undef

\* C19: a tick of a registered timer is never held back by an execution in
\* flight, and every tick starts an execution at once, next to the ones in
\* flight.
C19_Inv ==
    \A i \in registered : (ticks < TickLimit /\ EventLoopIdle) => ENABLED Tick(i)

C19_Step ==
    ticks' # ticks =>
        /\ ticks' = ticks + 1
        /\ BagCardinality(firings') = BagCardinality(firings) + 1
        /\ \A fr \in BagToSet(firings) : CopiesIn(fr, firings') >= CopiesIn(fr, firings)

C19_NoMutualExclusion == [](C19_Inv) /\ [][C19_Step]_vars

C19_Witness ==
    \E fr \in BagToSet(firings) :
        /\ fr.pc = "marketBuy"
        /\ CopiesIn(fr, firings) = 2

\* C20: after an accepted order the balance check never raises: when the
\* account has been fetched, the execution has not ended with an error, and
\* with no balance of the currency no warning is sent.
C20_BalanceCheckEndsNormally ==
    \A fr \in Executions :
        (Accepted(fr) /\ Has(fr.log, "binance.getAccountInfo")) =>
            /\ fr.pc # "threw"
            /\ fr.free < 0 => ~Has(fr.log, "telegram:balanceLow")
====
